---- MODULE Spec2Model ----
(***************************************************************************)
(* Model of the Tardis HTTP client                                         *)
(* (nautilus_core/adapters/src/tardis/http/client.rs).                     *)
(*                                                                         *)
(* The client is a struct of two strings and a transport handle.  `new`    *)
(* resolves the API key and the base URL; `instruments` and `instrument`   *)
(* are async functions with two await points each: `.send().await?` and    *)
(* `.json::<T>().await?`.  The transport (reqwest) is the environment: it  *)
(* answers a submitted request with a failure or with a response (status   *)
(* line first, body afterwards).                                           *)
(***************************************************************************)
EXTENDS Naturals, Sequences, FiniteSets, TLC

\* ---------------------------------------------------------------- bounds
NumCalls == 2

Calls == 1..NumCalls

\* ------------------------------------------------------- Option<&str>
None == <<>>

Some(v) == <<v>>

\* ------------------------------------------------------------ input sets
KeyArgs == {None, Some(""), Some("k1")}

UrlArgs == {None, Some("http://example.test")}

\* std::env::var("TARDIS_API_KEY"): None is Err(NotPresent / NotUnicode)
EnvValues == {None, Some(""), Some("k2")}

Exchanges == {"Binance", "Deribit"}

Symbols == {"XBT/USD 1?"}

Statuses == {200, 404}

\* What the response body is, relative to the type T the call decodes into:
\*   "matching"   valid JSON that deserializes as Response<T>
\*   "other_json" valid JSON of another shape
\*   "not_json"   not JSON at all (a body that cannot be read fails alike)
Bodies == {"matching", "other_json", "not_json"}

\* ------------------------------------------------------------- constants
\* super::TARDIS_BASE_URL
TARDIS_BASE_URL == "https://api.tardis.dev/v1"

\* Display of crate::tardis::enums::Exchange, as substituted by {exchange}
ExchangeDisplay(exchange) ==
    CASE exchange = "Binance" -> "binance"
      [] exchange = "Deribit" -> "deribit"

\* ------------------------------------------------------- pure functions
\* Option::unwrap_or
UnwrapOr(opt, default) == IF opt = None THEN default ELSE opt[1]

\* api_key.map(ToString::to_string).unwrap_or_else(|| env::var(..).expect(..))
\* The closure runs (and the environment is read) only when api_key is None.
ResolveApiKeySwapped(api_key, envv) ==
    IF envv # None
      THEN [panic |-> FALSE, key |-> envv[1], envRead |-> TRUE]
      ELSE IF api_key # None
        THEN [panic |-> FALSE, key |-> api_key[1], envRead |-> TRUE]
        ELSE [panic |-> TRUE, key |-> "", envRead |-> TRUE]

ResolveApiKey(api_key, envv) ==
    IF api_key # None
      THEN [panic |-> FALSE, key |-> api_key[1], envRead |-> FALSE]
      ELSE IF envv # None
        THEN [panic |-> FALSE, key |-> envv[1], envRead |-> TRUE]
        ELSE [panic |-> TRUE, key |-> "", envRead |-> TRUE]

\* base_url.unwrap_or(TARDIS_BASE_URL).to_string()
ResolveBaseUrlDefault(base_url) == TARDIS_BASE_URL

ResolveBaseUrl(base_url) == UnwrapOr(base_url, TARDIS_BASE_URL)

\* format!("{}/instruments/{exchange}", &self.base_url)
InstrumentsUrl(base, exchange) ==
    base \o "/instruments/" \o ExchangeDisplay(exchange)

\* format!("{}/instruments/{exchange}/{symbol}", &self.base_url)
InstrumentUrlNoSlash(base, exchange, symbol) ==
    base \o "/instruments/" \o ExchangeDisplay(exchange) \o symbol

InstrumentUrl(base, exchange, symbol) ==
    base \o "/instruments/" \o ExchangeDisplay(exchange) \o "/" \o symbol

\* RequestBuilder::bearer_auth(&self.api_key)
BearerAuthRaw(token) == token

BearerAuth(token) == "Bearer " \o token

\* self.client.get(url).bearer_auth(&self.api_key)
BuildRequest(url, token) ==
    [method |-> "GET", url |-> url, authorization |-> BearerAuth(token)]

\* The From impls derived by #[from] on enum Error: the variant a `?`
\* produces is chosen by the TYPE of the error it converts.
ErrorFromSwapped(errType) ==
    CASE errType = "reqwest::Error" -> "Deserialization"
      [] errType = "serde_json::Error" -> "Request"

ErrorFrom(errType) ==
    CASE errType = "reqwest::Error" -> "Request"
      [] errType = "serde_json::Error" -> "Deserialization"

\* The error type of each awaited transport call.  Both RequestBuilder::send
\* and Response::json return reqwest::Result, so a decode failure is a
\* reqwest::Error as well.
SendErrType == "reqwest::Error"

JsonErrType == "reqwest::Error"

Ok == [kind |-> "Ok"]

Err(variant) == [kind |-> "Err", error |-> variant]

NoResult == [kind |-> "None"]

\* .json::<Response<T>>().await? : the status is not looked at
JsonResult(status, body) ==
    IF body = "matching" THEN Ok ELSE Err(ErrorFrom(JsonErrType))

\* ------------------------------------------------------------------ state
VARIABLES
    argKey,    \* api_key argument of new
    argUrl,    \* base_url argument of new
    env,       \* TARDIS_API_KEY in the process environment
    buildOk,   \* whether reqwest::Client::builder().build() succeeds
    client,    \* the TardisHttpClient, NoClient before/without construction
    panicked,  \* "none", or the panic that ended construction
    envRead,   \* whether construction read the environment
    calls,     \* per invocation: the future's position, arguments, result
    net        \* per invocation: what the transport was handed and answered

vars == <<argKey, argUrl, env, buildOk, client, panicked, envRead, calls, net>>

NoClient == [constructed |-> FALSE]

NoRequest == [method |-> "none"]

IdleCall ==
    [pc |-> "idle", op |-> "none", exchange |-> "none", symbol |-> "none",
     result |-> NoResult]

IdleNet ==
    [request |-> NoRequest, sends |-> 0, outcome |-> "none", status |-> 0,
     body |-> "none"]

Init ==
    /\ argKey \in KeyArgs
    /\ argUrl \in UrlArgs
    /\ env \in EnvValues
    /\ buildOk \in BOOLEAN
    /\ client = NoClient
    /\ panicked = "none"
    /\ envRead = FALSE
    /\ calls = [c \in Calls |-> IdleCall]
    /\ net = [c \in Calls |-> IdleNet]

Constructed == client # NoClient

\* ---------------------------------------------------------------- actions
\* TardisHttpClient::new
New ==
    /\ client = NoClient
    /\ panicked = "none"
    /\ LET r == ResolveApiKey(argKey, env) IN
         /\ envRead' = r.envRead
         /\ IF r.panic
              THEN /\ panicked' = "missing_api_key"
                   /\ client' = client
              ELSE IF ~buildOk
                THEN /\ panicked' = "client_build"
                     /\ client' = client
                ELSE /\ panicked' = panicked
                     /\ client' = [constructed |-> TRUE,
                                   base_url |-> ResolveBaseUrl(argUrl),
                                   api_key |-> r.key]
    /\ UNCHANGED <<argKey, argUrl, env, buildOk, calls, net>>

\* Hands a request to the transport: RequestBuilder::send()
Submit(c, request) ==
    net' = [net EXCEPT ![c] = [request |-> request, sends |-> @.sends + 1,
                               outcome |-> "pending", status |-> 0,
                               body |-> "none"]]

\* TardisHttpClient::instruments, up to the first await
Instruments(c, exchange) ==
    /\ Constructed
    /\ calls[c].pc = "idle"
    /\ calls' = [calls EXCEPT ![c] = [pc |-> "await_send",
                                      op |-> "instruments",
                                      exchange |-> exchange,
                                      symbol |-> "none",
                                      result |-> NoResult]]
    /\ Submit(c, BuildRequest(InstrumentsUrl(client.base_url, exchange),
                              client.api_key))
    /\ UNCHANGED <<argKey, argUrl, env, buildOk, client, panicked, envRead>>

\* TardisHttpClient::instrument, up to the first await
Instrument(c, exchange, symbol) ==
    /\ Constructed
    /\ calls[c].pc = "idle"
    /\ calls' = [calls EXCEPT ![c] = [pc |-> "await_send",
                                      op |-> "instrument",
                                      exchange |-> exchange,
                                      symbol |-> symbol,
                                      result |-> NoResult]]
    /\ Submit(c, BuildRequest(
                     InstrumentUrl(client.base_url, exchange, symbol),
                     client.api_key))
    /\ UNCHANGED <<argKey, argUrl, env, buildOk, client, panicked, envRead>>

\* .send().await? when send() yields Err: the call returns at the `?`
SendFailsRetry(c) ==
    /\ calls[c].pc = "await_send"
    /\ net[c].outcome = "pending"
    /\ net[c].sends < 2
    /\ net' = [net EXCEPT ![c].sends = @ + 1]
    /\ UNCHANGED <<argKey, argUrl, env, buildOk, client, panicked, envRead,
                   calls>>

SendFailsAll(c) ==
    /\ calls[c].pc = "await_send"
    /\ net[c].outcome = "pending"
    /\ net' = [net EXCEPT ![c].outcome = "failed"]
    /\ calls' = [d \in Calls |->
                   IF calls[d].pc = "await_send"
                     THEN [calls[d] EXCEPT !.pc = "done",
                                           !.result = Err(ErrorFrom(SendErrType))]
                     ELSE calls[d]]
    /\ UNCHANGED <<argKey, argUrl, env, buildOk, client, panicked, envRead>>

SendFails(c) ==
    /\ calls[c].pc = "await_send"
    /\ net[c].outcome = "pending"
    /\ net' = [net EXCEPT ![c].outcome = "failed"]
    /\ calls' = [calls EXCEPT ![c].pc = "done",
                              ![c].result = Err(ErrorFrom(SendErrType))]
    /\ UNCHANGED <<argKey, argUrl, env, buildOk, client, panicked, envRead>>

\* .send().await? when send() yields Ok(response), whatever its status
SendResponds(c, status) ==
    /\ calls[c].pc = "await_send"
    /\ net[c].outcome = "pending"
    /\ net' = [net EXCEPT ![c].outcome = "response", ![c].status = status]
    /\ calls' = [calls EXCEPT ![c].pc = "await_json"]
    /\ UNCHANGED <<argKey, argUrl, env, buildOk, client, panicked, envRead>>

\* .json::<Response<T>>().await? and the Ok(..) around it
JsonCompletes(c, body) ==
    /\ calls[c].pc = "await_json"
    /\ net' = [net EXCEPT ![c].body = body]
    /\ calls' = [calls EXCEPT ![c].pc = "done",
                              ![c].result = JsonResult(net[c].status, body)]
    /\ UNCHANGED <<argKey, argUrl, env, buildOk, client, panicked, envRead>>

Next ==
    \/ New
    \/ \E c \in Calls, e \in Exchanges : Instruments(c, e)
    \/ \E c \in Calls, e \in Exchanges, s \in Symbols : Instrument(c, e, s)
    \/ \E c \in Calls : SendFails(c)
    \/ \E c \in Calls, st \in Statuses : SendResponds(c, st)
    \/ \E c \in Calls, b \in Bodies : JsonCompletes(c, b)

Spec == Init /\ [][Next]_vars

\* ------------------------------------------------- vocabulary of the claims
Started(c) == calls[c].pc # "idle"

Done(c) == calls[c].pc = "done"

IsSuccess(status) == status >= 200 /\ status < 300

\* The key and base URL fixed by the arguments of new and the environment
KeyAtConstruction == IF argKey # None THEN argKey[1] ELSE env[1]

BaseAtConstruction == IF argUrl # None THEN argUrl[1] ELSE TARDIS_BASE_URL

\* The path of the endpoint a call addresses, from the call's own arguments
Path(c) ==
    IF calls[c].op = "instruments"
      THEN "/instruments/" \o ExchangeDisplay(calls[c].exchange)
      ELSE "/instruments/" \o ExchangeDisplay(calls[c].exchange)
             \o "/" \o calls[c].symbol

SameArguments(c, d) ==
    /\ calls[c].op = calls[d].op
    /\ calls[c].exchange = calls[d].exchange
    /\ calls[c].symbol = calls[d].symbol

\* ------------------------------------------------------------------ claims

\* C1: a received response whose body is valid JSON of another shape than
\* the expected envelope makes the call return Error::Deserialization.
C1_MismatchIsDeserialization ==
    \A c \in Calls :
        (Done(c) /\ net[c].outcome = "response" /\ net[c].body = "other_json")
            => calls[c].result = Err("Deserialization")

\* C2: a transport failure of send() makes the call return Error::Request:
\* not Deserialization, not success, no body is decoded, nothing panics.
C2_TransportFailureIsRequest ==
    \A c \in Calls :
        net[c].outcome = "failed"
            => /\ Done(c)
               /\ calls[c].result = Err("Request")
               /\ net[c].body = "none"
               /\ panicked = "none"

C2_Witness ==
    \E c, d \in Calls :
        /\ net[c].outcome = "failed" /\ calls[c].op = "instruments"
        /\ net[d].outcome = "failed" /\ calls[d].op = "instrument"

\* C3: a response with a non-2xx status makes the call return a request
\* error, never a success, whatever the body.
C3_NonSuccessStatusIsRequestError ==
    \A c \in Calls :
        (Done(c) /\ net[c].outcome = "response" /\ ~IsSuccess(net[c].status))
            => calls[c].result = Err("Request")

\* C4: a constructed client holds a non-empty API key, equal to the value
\* fixed at construction.
C4_KeyNonEmptyAndFixed ==
    Constructed
        => /\ client.api_key # ""
           /\ client.api_key = KeyAtConstruction

\* C5: every request handed to the transport carries the Authorization
\* header "Bearer " followed by exactly the key fixed at construction.
C5_BearerHeaderIsConfiguredKey ==
    \A c \in Calls :
        Started(c)
            => /\ net[c].request # NoRequest
               /\ net[c].request.authorization
                      = "Bearer " \o KeyAtConstruction

C5_Witness ==
    \E c, d \in Calls :
        /\ c # d
        /\ Done(c)
        /\ Started(d)
        /\ argKey = None
        /\ net[d].request.authorization = "Bearer k2"

\* C6: the requested URL is base_url, "/instruments/", the exchange's
\* canonical string and, for instrument, "/" and the symbol as given.
C6_UrlIsPlainConcatenation ==
    \A c \in Calls :
        Started(c)
            => /\ net[c].request.method = "GET"
               /\ calls[c].op = "instruments"
                    => net[c].request.url
                         = client.base_url \o "/instruments/"
                             \o ExchangeDisplay(calls[c].exchange)
               /\ calls[c].op = "instrument"
                    => net[c].request.url
                         = client.base_url \o "/instruments/"
                             \o ExchangeDisplay(calls[c].exchange)
                             \o "/" \o calls[c].symbol

C6_Witness ==
    \E c, d \in Calls :
        /\ net[c].request
             = [method |-> "GET",
                url |-> "http://example.test/instruments/binance/XBT/USD 1?",
                authorization |-> "Bearer k1"]
        /\ net[d].request # NoRequest
        /\ net[d].request.url = "http://example.test/instruments/deribit"

\* C7: with a base URL override every request targets the override and not
\* the default; without one every request targets TARDIS_BASE_URL; the base
\* URL is the same in every state of the client.
C7_BaseUrlOverride ==
    /\ Constructed => client.base_url = BaseAtConstruction
    /\ \A c \in Calls :
          Started(c)
            => /\ net[c].request.url = BaseAtConstruction \o Path(c)
               /\ argUrl # None
                    => net[c].request.url # TARDIS_BASE_URL \o Path(c)

C7_Witness ==
    \E c, d \in Calls :
        /\ c # d
        /\ argUrl = Some("http://example.test")
        /\ Done(c)
        /\ Started(d)
        /\ net[d].request.url = "http://example.test/instruments/binance"

\* C8: an invocation hands exactly one request to the transport and ends
\* with exactly one result: no second request after a failure, and a call
\* repeating another's arguments still sends its own request.
C8_OneRequestOneResult ==
    \A c \in Calls :
        /\ calls[c].pc = "idle"
              => net[c].sends = 0 /\ calls[c].result = NoResult
        /\ calls[c].pc \in {"await_send", "await_json"}
              => net[c].sends = 1 /\ calls[c].result = NoResult
        /\ Done(c)
              => net[c].sends = 1 /\ calls[c].result # NoResult

C8_Witness ==
    \E c, d \in Calls :
        /\ c # d
        /\ SameArguments(c, d)
        /\ Done(c) /\ calls[c].result = Ok
        /\ Done(d) /\ calls[d].result.kind = "Err"
        /\ net[c].sends = 1 /\ net[d].sends = 1

\* C9: with calls outstanding concurrently the client's fields keep their
\* constructed values, each request is built from the client and the call's
\* own arguments, each result is decided by the transport's answer to the
\* call's own request, and an idle call can start whatever the others do.
C9_CallsAreIndependent ==
    /\ Constructed
          => client = [constructed |-> TRUE,
                       base_url |-> BaseAtConstruction,
                       api_key |-> KeyAtConstruction]
    /\ \A c \in Calls :
          /\ Started(c)
                => net[c].request
                     = [method |-> "GET",
                        url |-> client.base_url \o Path(c),
                        authorization |-> "Bearer " \o client.api_key]
          /\ Done(c)
                => /\ net[c].outcome \in {"failed", "response"}
                   /\ net[c].outcome = "failed" => calls[c].result.kind = "Err"
                   /\ net[c].outcome = "response"
                         => net[c].body \in Bodies
                   /\ calls[c].result = Ok
                         <=> (net[c].outcome = "response"
                                /\ net[c].body = "matching")
          /\ (Constructed /\ ~Started(c))
                => ENABLED Instruments(c, "Binance")
    /\ \A c, d \in Calls :
          (/\ Done(c) /\ Done(d)
           /\ net[c].outcome = net[d].outcome
           /\ net[c].body = net[d].body)
            => calls[c].result = calls[d].result

C9_Witness ==
    \E c, d \in Calls :
        /\ c # d
        /\ calls[c].pc = "await_json"
        /\ Done(d) /\ net[d].outcome = "failed"
        /\ calls[c].op # calls[d].op

\* C10: new uses the api_key argument when given and does not read the
\* environment; without it the key is TARDIS_API_KEY; without either,
\* construction panics and no client exists.
C10_KeyResolutionOrder ==
    /\ (~Constructed /\ panicked = "none") => ~envRead
    /\ (Constructed \/ panicked # "none")
          => /\ argKey # None
                  => /\ ~envRead
                     /\ panicked # "missing_api_key"
                     /\ Constructed => client.api_key = argKey[1]
             /\ (argKey = None /\ env # None)
                  => /\ envRead
                     /\ panicked # "missing_api_key"
                     /\ Constructed => client.api_key = env[1]
             /\ (argKey = None /\ env = None)
                  => /\ panicked = "missing_api_key"
                     /\ ~Constructed

C10_Witness ==
    /\ argKey = None
    /\ env = None
    /\ panicked = "missing_api_key"
    /\ envRead
    /\ ~Constructed

====
